---- MODULE Spec2Model ----
(***************************************************************************)
(* A model of mrep3.py: ray tracing of Bezier patches through their        *)
(* matrix representations (M-Reps).                                        *)
(*                                                                         *)
(* Four specifications share the module, one per part of the program:      *)
(*   SpecTrace   raytrace (the scene driver)                               *)
(*   SpecReduce  reduce_pencil_easy / pencil_eigenvalues                   *)
(*   SpecRay     parameterize_ray                                          *)
(*   SpecShape   S_v / build_M / preimages (shapes and extension degree)   *)
(*                                                                         *)
(* Numbers.  Lengths, distances and eigenvalue parts are integers in      *)
(* units of 0.5e-8, so that the program's 1e-8 tolerances are 2 units and  *)
(* a value can lie strictly inside a tolerance band.  Python's None and    *)
(* False results are the empty sequence, a present value x is <<x>>.       *)
(***************************************************************************)
EXTENDS Integers, Sequences, FiniteSets

VARIABLES
    \* ---- raytrace
    ray_origin, ray_dir, implicit_patches, targets, scanned,
    min_dist, hit_index, hit_uv, actual_search, tpc,
    boxed, reduced, recovered, visits, ref_min,
    \* ---- reduce_pencil_easy / pencil_eigenvalues
    A, B, rpc, outcome, depth, passes, eigs_out,
    \* ---- parameterize_ray
    par_M, par_o, par_d, par_A, par_B, par_t, par_Mt, ppc,
    \* ---- S_v / build_M / preimages
    degree1, degree2, sv_v, s_shape, null_shape, m_rows, pre_v, n_len, spc

traceVars == <<ray_origin, ray_dir, implicit_patches, targets, scanned,
               min_dist, hit_index, hit_uv, actual_search, tpc,
               boxed, reduced, recovered, visits, ref_min>>

redVars == <<A, B, rpc, outcome, depth, passes, eigs_out>>

parVars == <<par_M, par_o, par_d, par_A, par_B, par_t, par_Mt, ppc>>

shapeVars == <<degree1, degree2, sv_v, s_shape, null_shape, m_rows, pre_v, n_len, spc>>

vars == <<traceVars, redVars, parVars, shapeVars>>

\* Each specification runs one part of the program; the variables of the
\* other parts rest.
TraceIdle ==
    /\ ray_origin = << >> /\ ray_dir = << >> /\ implicit_patches = << >>
    /\ targets = << >> /\ scanned = 0 /\ min_dist = 0 /\ hit_index = << >>
    /\ hit_uv = << >> /\ actual_search = 0 /\ tpc = "idle" /\ boxed = 0
    /\ reduced = {} /\ recovered = {} /\ visits = << >> /\ ref_min = 0

ReduceIdle ==
    /\ A = << >> /\ B = << >> /\ rpc = "idle" /\ outcome = "none"
    /\ depth = 0 /\ passes = 0 /\ eigs_out = << >>

ParIdle ==
    /\ par_M = << >> /\ par_o = << >> /\ par_d = << >> /\ par_A = << >>
    /\ par_B = << >> /\ par_t = 0 /\ par_Mt = << >> /\ ppc = "idle"

ShapeIdle ==
    /\ degree1 = 0 /\ degree2 = 0 /\ sv_v = << >> /\ s_shape = << >>
    /\ null_shape = << >> /\ m_rows = 0 /\ pre_v = << >> /\ n_len = 0 /\ spc = "idle"

\* ------------------------------------------------------------------------
\* Values
\* ------------------------------------------------------------------------
None == << >>
Some(x) == <<x>>
Min2(a, b) == IF a <= b THEN a ELSE b
Max2(a, b) == IF a >= b THEN a ELSE b
Abs(x) == IF x < 0 THEN -x ELSE x

\* eps = 1e-8 of raytrace, in units of 0.5e-8.
Eps == 2
\* The 1e-8 bound on an eigenvalue's imaginary part.
ImagTol == 2
\* eps = 1e-8 of preimages, and 1.0, in the same units.
PreEps == 2
One == 200000000
\* min_dist starts at 1e12.  In units of 0.5e-8 that is beyond the integers
\* TLC has (32 bits); it is held at the top of the range, above every distance
\* and coordinate the model draws.
InitMinDist == 2000000000

\* The scene holds at most MaxPatches patches.
MaxPatches == 3

\* The patches have degrees up to MaxDeg in each parameter.
MaxDeg == 4

Axes == 1..3

\* ------------------------------------------------------------------------
\* ray_box: the bounding-box primitive (a native library, outside the
\* Python source).  Slab test of the ray o + t*d, t >= 0, against the box;
\* the entry distance, or None.  Directions have components in {-1, 0, 1}.
\* ------------------------------------------------------------------------
SlabHit(o, d, lo, hi, a) ==
    IF d[a] = 0 THEN o[a] >= lo[a] /\ o[a] <= hi[a] ELSE TRUE

SlabNear(o, d, lo, hi, a) ==
    IF d[a] = 0 THEN -InitMinDist
    ELSE Min2((lo[a] - o[a]) * d[a], (hi[a] - o[a]) * d[a])

SlabFar(o, d, lo, hi, a) ==
    IF d[a] = 0 THEN InitMinDist
    ELSE Max2((lo[a] - o[a]) * d[a], (hi[a] - o[a]) * d[a])

SetMax(S) == CHOOSE x \in S : \A y \in S : y <= x
SetMin(S) == CHOOSE x \in S : \A y \in S : x <= y

ray_box(o, d, lo, hi) ==
    LET tnear == SetMax({SlabNear(o, d, lo, hi, a) : a \in Axes})
        tfar  == SetMin({SlabFar(o, d, lo, hi, a) : a \in Axes})
    IN  IF /\ \A a \in Axes : SlabHit(o, d, lo, hi, a)
           /\ tnear <= tfar
           /\ tfar >= 0
        THEN Some(Max2(tnear, 0))
        ELSE None

\* ------------------------------------------------------------------------
\* preimages: the slices of the null vector
\* ------------------------------------------------------------------------
\* v = (5, 2), hard-coded in preimages
PreimagesV == <<5, 2>>

\* The length of n[i:j] for a vector of N entries; a negative index counts
\* from the end and an index beyond either end is clipped.
SliceIndex(N, i) == IF i < 0 THEN Max2(N + i, 0) ELSE Min2(i, N)
SliceLen(N, i, j) == Max2(0, SliceIndex(N, j) - SliceIndex(N, i))

\* The length of n[k::step].
StridedLen(N, k, step) == IF N > k THEN (N - k + step - 1) \div step ELSE 0

\* The length of x + y for one-dimensional arrays of la and lb entries, or
\* None when the shapes cannot be broadcast together (ValueError).
Broadcast(la, lb) ==
    IF la = lb THEN Some(la)
    ELSE IF la = 1 THEN Some(lb)
    ELSE IF lb = 1 THEN Some(la)
    ELSE None

\* np.hstack([x, y]) of two one-dimensional arrays, None when either raised.
HStack(x, y) == IF x = None \/ y = None THEN None ELSE Some(x[1] + y[1])

\* np.linalg.lstsq(A.reshape(-1, 1), B.reshape(-1, 1)) needs as many rows in
\* B as in A (LinAlgError, a ValueError, otherwise).
LstsqOk(a, b) == a # None /\ b # None /\ a = b

\* The first system of preimages: the lengths of A and B for a null vector
\* of N entries.
USystemOk(N, v) ==
    LET step == v[2] + 1
        a == HStack(Broadcast(StridedLen(N, 0, step), StridedLen(N, 1, step)),
                    Broadcast(StridedLen(N, v[2], step), StridedLen(N, v[2] - 1, step)))
        b == Some(StridedLen(N, 1, step) + StridedLen(N, v[2], step))
    IN  LstsqOk(a, b)

\* The second system of preimages.
VSystemOk(N, v) ==
    LET w == v[2] + 1
        a == HStack(Broadcast(SliceLen(N, 0, w), SliceLen(N, w, 2 * w)),
                    Broadcast(SliceLen(N, -w, N), SliceLen(N, -2 * w, -w)))
        b == Some(SliceLen(N, w, 2 * w) + SliceLen(N, -w, N))
    IN  LstsqOk(a, b)

\* preimages reaches its domain test: neither system raises.
PreimagesCompletes(N, v) == USystemOk(N, v) /\ VSystemOk(N, v)

\* ------------------------------------------------------------------------
\* preimages, once both systems are solved: the two least-squares solutions
\* u, v (numerical results, drawn by the caller) pass the domain test or the
\* result is False.
\* ------------------------------------------------------------------------
preimages(u, v) ==
    IF u >= -PreEps /\ u <= One + PreEps /\ v >= -PreEps /\ v <= One + PreEps
    THEN Some(<<u, v>>)
    ELSE None

\* pt = ray_origin + ray_dir * dist
PointAt(o, d, dist) == [a \in Axes |-> o[a] + d[a] * dist]

\* np.all((pt >= bounds_min - eps) * (pt <= bounds_max + eps))
InBounds(pt, lo, hi) ==
    \A a \in Axes : pt[a] >= lo[a] - Eps /\ pt[a] <= hi[a] + Eps

\* ------------------------------------------------------------------------
\* Matrices.  A matrix is [r, c, v]: r rows, c columns, v[i][j] its entries.
\* The reducer is modelled on the matrices with at most one nonzero entry in
\* each row and column, whose singular value decompositions have permutation
\* factors, so that every product of the reducer is exact.  An entry is None
\* (0.0) or <<k>> (10^k in magnitude; signs play no part in the reducer's
\* tests, which all take absolute values).
\* ------------------------------------------------------------------------
MaxDim == 2

ALevels == {-9, 0}
BLevels == {-9, -7, 10}

RowSpecs(n, L) == {None} \cup {<<j, l>> : j \in 1..n, l \in L}

MatOf(m, n, f) ==
    [r |-> m, c |-> n,
     v |-> [i \in 1..m |-> [j \in 1..n |->
              IF f[i] # None /\ f[i][1] = j THEN <<f[i][2]>> ELSE None]]]

Mono(m, n, L) ==
    {MatOf(m, n, f) : f \in {g \in [1..m -> RowSpecs(n, L)] :
        \A i1 \in 1..m, i2 \in 1..m :
            (i1 # i2 /\ g[i1] # None /\ g[i2] # None) => g[i1][1] # g[i2][1]}}

\* M.T
Transpose(M) ==
    [r |-> M.c, c |-> M.r, v |-> [i \in 1..M.c |-> [j \in 1..M.r |-> M.v[j][i]]]]

Perms(n) == {f \in [1..n -> 1..n] : \A i \in 1..n, j \in 1..n : f[i] = f[j] => i = j}

\* U.T M V for permutation matrices U, V whose k-th columns are the unit
\* vectors e_pu[k], e_pv[k].
Permute(M, pu, pv) ==
    [r |-> M.r, c |-> M.c, v |-> [k \in 1..M.r |-> [l \in 1..M.c |-> M.v[pu[k]][pv[l]]]]]

Identity(n) == [i \in 1..n |-> i]

\* M[r0:, c0:c1] with Python's 0-based half-open bounds.
Slice(M, r0, c0, c1) ==
    [r |-> M.r - r0, c |-> c1 - c0,
     v |-> [i \in 1..(M.r - r0) |-> [j \in 1..(c1 - c0) |-> M.v[i + r0][j + c0]]]]

\* x >= y for magnitudes.
MagGeq(x, y) == y = None \/ (x # None /\ x[1] >= y[1])

\* np.linalg.svd(M) = (u, e, vt): the decompositions with permutation factors.
\* u.T M vt.T is diagonal with the singular values in descending order; which
\* of the admissible factors the library returns is its own choice.
IsSVD(M, s) ==
    LET D == Permute(M, s.u, s.v)
    IN  /\ \A k \in 1..M.r, l \in 1..M.c : k # l => D.v[k][l] = None
        /\ \A k \in 1..(Min2(M.r, M.c) - 1) : MagGeq(D.v[k][k], D.v[k + 1][k + 1])

SVDs(M) == {s \in [u : Perms(M.r), v : Perms(M.c)] : IsSVD(M, s)}

SingularValues(M, s) == [k \in 1..Min2(M.r, M.c) |-> M.v[s.u[k]][s.v[k]]]

\* e1.max()
MaxMag(e) == IF \A k \in DOMAIN e : e[k] = None THEN None
             ELSE CHOOSE x \in {e[k] : k \in DOMAIN e} : \A k \in DOMAIN e : MagGeq(x, e[k])

\* The decimal digits of max(B.shape) * eps, eps = 2.22e-16: 10^k exceeds
\* top * dim * eps exactly when k - top >= -TolDigits(dim).
TolDigits(dim) == IF dim <= 4 THEN 15 ELSE 14

\* e1 > tol, tol = e1.max() * max(B.shape) * eps
AboveTol(x, top, dim) == x # None /\ x[1] - top[1] >= -TolDigits(dim)

\* np.sum(e1 > tol)
NumRank(M, s) ==
    LET e1 == SingularValues(M, s)
    IN  Cardinality({k \in DOMAIN e1 : AboveTol(e1[k], MaxMag(e1), Max2(M.r, M.c))})

\* abs(x) < 1e-8
NearZero(x) == x = None \/ x[1] < -8

\* np.where(np.max(np.abs(bv1), axis=0) < 1e-8): the 0-based columns of bv1
\* whose entries are all near zero.
NearZeroColumns(bv1) ==
    {l - 1 : l \in {j \in 1..bv1.c : \A k \in 1..bv1.r : NearZero(bv1.v[k][j])}}

\* np.where(np.abs(A) < 1e-8): the 0-based places of the near-zero entries.
Mask(M) == {<<i - 1, j - 1>> : i \in 1..M.r, j \in 1..M.c} \cap
           {q \in (0..(M.r - 1)) \X (0..(M.c - 1)) : NearZero(M.v[q[1] + 1][q[2] + 1])}

\* (mask[0][0], mask[1][0]): the first place in row-major order.
FirstOf(mk) ==
    CHOOSE q \in mk : \A w \in mk : q[1] < w[1] \/ (q[1] = w[1] /\ q[2] <= w[2])

\* A return without the squareness test.
RegularAlways(M) == TRUE

\* `if B.shape[0] == B.shape[1]`
Regular(M) == M.r = M.c

\* One pass of `while True`, up to the second decomposition: break, an
\* exception, or go on with the column index i.
PassHead(MA, MB, s1) ==
    LET r   == NumRank(MB, s1)
        bv1 == Permute(MB, Identity(MB.r), s1.v)
        nz  == NearZeroColumns(bv1)
    IN  IF r = MB.c THEN [kind |-> "break", i |-> 0]
        ELSE IF nz = {} THEN [kind |-> "ValueError", i |-> 0]
        ELSE IF r # SetMin(nz) THEN [kind |-> "AssertionError", i |-> SetMin(nz)]
        ELSE [kind |-> "go", i |-> SetMin(nz)]

\* A1 = av1[:, i:]
A1Of(MA, s1, i) == Slice(Permute(MA, Identity(MA.r), s1.v), 0, i, MA.c)

\* The rest of the pass: the pencil re-expressed and shrunk, or False.
PassTail(MA, MB, s1, s2) ==
    LET A2 == Permute(MA, s2.u, s1.v)
        B2 == Permute(MB, s2.u, s1.v)
        mk == Mask(A2)
    IN  IF mk = {} THEN [kind |-> "False", A |-> A2, B |-> B2]
        ELSE LET q  == FirstOf(mk)
                 A3 == Slice(A2, q[1], 0, q[2])
                 B3 == Slice(B2, q[1], 0, q[2])
             IN  IF B3.r * B3.c = 0 THEN [kind |-> "False", A |-> A3, B |-> B3]
                 ELSE [kind |-> "shrunk", A |-> A3, B |-> B3]

Dims == 1..MaxDim

ReduceInit ==
    /\ \E m \in Dims, n \in Dims : A \in Mono(m, n, ALevels) /\ B \in Mono(m, n, BLevels)
    /\ rpc = "loop"
    /\ outcome = "none"
    /\ depth = 0
    /\ passes = 0
    /\ eigs_out = None

\* `if np.sum(e1 > tol) == B.shape[1]: break`
LoopBreak ==
    /\ rpc = "loop"
    /\ \E s1 \in SVDs(B) : PassHead(A, B, s1).kind = "break"
    /\ rpc' = "exit"
    /\ UNCHANGED <<A, B, outcome, depth, passes, eigs_out>>

\* np.min of no column raises ValueError; `assert(r == i)` raises
\* AssertionError.  Neither is caught by pencil_eigenvalues.
LoopRaise ==
    /\ rpc = "loop"
    /\ \E s1 \in SVDs(B) :
         /\ PassHead(A, B, s1).kind \in {"ValueError", "AssertionError"}
         /\ outcome' = PassHead(A, B, s1).kind
    /\ rpc' = "raised"
    /\ UNCHANGED <<A, B, depth, passes, eigs_out>>

\* A pass that ends in `return False`: A and B are the re-expressed pencil
\* when no entry of A is near zero, and the sliced, empty one otherwise.
LoopFalse ==
    /\ rpc = "loop"
    /\ \E s1 \in SVDs(B) :
         /\ PassHead(A, B, s1).kind = "go"
         /\ \E s2 \in SVDs(A1Of(A, s1, PassHead(A, B, s1).i)) :
              /\ PassTail(A, B, s1, s2).kind = "False"
              /\ A' = PassTail(A, B, s1, s2).A
              /\ B' = PassTail(A, B, s1, s2).B
    /\ outcome' = "degenerate"
    /\ rpc' = "done"
    /\ passes' = passes + 1
    /\ UNCHANGED <<depth, eigs_out>>

\* A pass that shrinks the pencil and loops.
LoopShrink ==
    /\ rpc = "loop"
    /\ \E s1 \in SVDs(B) :
         /\ PassHead(A, B, s1).kind = "go"
         /\ \E s2 \in SVDs(A1Of(A, s1, PassHead(A, B, s1).i)) :
              /\ PassTail(A, B, s1, s2).kind = "shrunk"
              /\ A' = PassTail(A, B, s1, s2).A
              /\ B' = PassTail(A, B, s1, s2).B
    /\ passes' = passes + 1
    /\ UNCHANGED <<rpc, outcome, depth, eigs_out>>

\* `return A, B`
ReturnPencil ==
    /\ rpc = "exit"
    /\ Regular(B)
    /\ outcome' = "pencil"
    /\ rpc' = "done"
    /\ UNCHANGED <<A, B, depth, passes, eigs_out>>

\* `return reduce_pencil_easy(A.T, B.T)`
Recurse ==
    /\ rpc = "exit"
    /\ ~Regular(B)
    /\ A' = Transpose(A)
    /\ B' = Transpose(B)
    /\ depth' = depth + 1
    /\ rpc' = "loop"
    /\ UNCHANGED <<outcome, passes, eigs_out>>

\* pencil_eigenvalues: eigvals(A, B) of the reduced pencil (one value for
\* each column), or [] for False.
PencilEigenvalues ==
    /\ rpc = "done"
    /\ eigs_out' = IF outcome = "pencil" THEN Some(B.c) ELSE Some(0)
    /\ rpc' = "returned"
    /\ UNCHANGED <<A, B, outcome, depth, passes>>

ReduceNext ==
    \/ LoopBreak /\ UNCHANGED <<traceVars, parVars, shapeVars>>
    \/ LoopRaise /\ UNCHANGED <<traceVars, parVars, shapeVars>>
    \/ LoopFalse /\ UNCHANGED <<traceVars, parVars, shapeVars>>
    \/ LoopShrink /\ UNCHANGED <<traceVars, parVars, shapeVars>>
    \/ ReturnPencil /\ UNCHANGED <<traceVars, parVars, shapeVars>>
    \/ Recurse /\ UNCHANGED <<traceVars, parVars, shapeVars>>
    \/ PencilEigenvalues /\ UNCHANGED <<traceVars, parVars, shapeVars>>

ReduceStart == ReduceInit /\ TraceIdle /\ ParIdle /\ ShapeIdle

SpecReduce == ReduceStart /\ [][ReduceNext]_vars


\* ------------------------------------------------------------------------
\* raytrace
\* ------------------------------------------------------------------------
\* One generalized eigenvalue of a patch's reduced pencil (re, im), with the
\* least-squares solutions (u, v) preimages computes at its point.
Cands ==
    {[re |-> -t, im |-> 0, u |-> 0, v |-> One] : t \in {0, 2, 4, 5, 7}}
    \cup {[re |-> -3, im |-> 3, u |-> 0, v |-> 0],
          [re |-> -5, im |-> -2, u |-> -2, v |-> One + 2],
          [re |-> -3, im |-> 0, u |-> -3, v |-> 0],
          [re |-> -5, im |-> 0, u |-> 0, v |-> One + 3],
          [re |-> 3, im |-> 0, u |-> 0, v |-> 0]}

\* What pencil_eigenvalues returns for one patch: [] for a degenerate pencil,
\* or the eigenvalues of the reduced pencil.
EigLists == {<< >>} \cup {<<c>> : c \in Cands}
            \cup {<<c1, c2>> : c1 \in Cands, c2 \in Cands}

Rays == {[o |-> <<0, 0, 0>>, d |-> <<0, 0, 1>>],
         [o |-> <<0, 0, 0>>, d |-> <<0, 0, -1>>]}

\* Bounding boxes: across the ray they hold it or miss it by less than eps;
\* along the ray they lie ahead, behind (a ray that points away misses them),
\* or around the origin.
ZRanges == {<<4, 6>>, <<5, 8>>, <<-1, 1>>}
Boxes == {[bounds_min |-> <<-4, -4, z[1]>>, bounds_max |-> <<4, 4, z[2]>>] : z \in ZRanges}
         \cup {[bounds_min |-> <<1, -4, 4>>, bounds_max |-> <<9, 4, 6>>]}

\* The entries of (M, bounds_min, bounds_max): of M the model keeps its number
\* of rows, 18 for a bicubic patch; one patch of degrees (2, 2), of 8 rows,
\* has a box that holds the ray.
Patches ==
    {[bounds_min |-> b.bounds_min, bounds_max |-> b.bounds_max, rows |-> 18] : b \in Boxes}
    \cup {[bounds_min |-> <<-4, -4, 4>>, bounds_max |-> <<4, 4, 6>>, rows |-> 8]}

\* The row counts M can have for degrees up to MaxDeg, (2 * min) * max, and
\* those among them on which preimages completes.
RowCounts == 1..(2 * MaxDeg * MaxDeg)
FittingRows == {N \in RowCounts : PreimagesCompletes(N, PreimagesV)}
Fits(p) == p.rows \in FittingRows

PatchLists == UNION {[1..n -> Patches] : n \in 0..MaxPatches}

\* The body of `for e in eigs` for one eigenvalue: st is (min_dist, hit_index,
\* hit_uv, whether preimages was called, whether it raised).
EigBody(e, st, o, d, p, index) ==
    IF Abs(e.im) > ImagTol THEN st
    ELSE LET dist == -e.re
         IN  IF dist < 0 THEN st
             ELSE IF dist > st.min_dist THEN st
             ELSE IF ~InBounds(PointAt(o, d, dist), p.bounds_min, p.bounds_max) THEN st
             ELSE IF ~Fits(p)
                  THEN [st EXCEPT !.called = TRUE, !.raised = TRUE]
             ELSE LET uv == preimages(e.u, e.v)
                  IN  IF uv = None THEN [st EXCEPT !.called = TRUE]
                      ELSE [min_dist |-> dist, hit_index |-> Some(index),
                            hit_uv |-> uv, called |-> TRUE, raised |-> FALSE]

RECURSIVE EigLoop(_, _, _, _, _, _)
EigLoop(eigs, st, o, d, p, index) ==
    IF eigs = << >> \/ st.raised THEN st
    ELSE EigLoop(Tail(eigs), EigBody(Head(eigs), st, o, d, p, index), o, d, p, index)

\* targets.sort(): tuples compare by box_dist, then by patch index.
TargetLess(a, b) ==
    \/ a.box_dist < b.box_dist
    \/ a.box_dist = b.box_dist /\ a.index < b.index

\* A scan in list order: the sort left out.
SortTargetsNot(ts) == ts

RECURSIVE SortTargets(_)
SortTargets(ts) ==
    IF ts = << >> THEN << >>
    ELSE LET k == CHOOSE i \in 1..Len(ts) :
                    \A j \in 1..Len(ts) : j = i \/ TargetLess(ts[i], ts[j])
             rest == [j \in 1..(Len(ts) - 1) |-> IF j < k THEN ts[j] ELSE ts[j + 1]]
         IN  <<ts[k]>> \o SortTargets(rest)

\* A valid candidate of patch p: real, not behind the origin, inside the
\* inflated box, and preimages succeeds.
ValidCand(e, o, d, p) ==
    /\ Abs(e.im) <= ImagTol
    /\ -e.re >= 0
    /\ InBounds(PointAt(o, d, -e.re), p.bounds_min, p.bounds_max)
    /\ Fits(p)
    /\ preimages(e.u, e.v) # None

\* The nearest valid candidate among eigs, or otherwise best.
NearestOf(eigs, best, o, d, p) ==
    SetMin({best} \cup {-eigs[i].re : i \in {j \in 1..Len(eigs) : ValidCand(eigs[j], o, d, p)}})

\* The distances at which patch p can have a valid candidate, and InitMinDist
\* for a patch that has none.
RefChoices(o, d, p) ==
    {InitMinDist} \cup {-c.re : c \in {e \in Cands : ValidCand(e, o, d, p)}}

TraceInit ==
    /\ \E r \in Rays : ray_origin = r.o /\ ray_dir = r.d
    /\ implicit_patches \in PatchLists
    /\ targets = << >>
    /\ scanned = 0
    /\ min_dist = InitMinDist
    /\ hit_index = None
    /\ hit_uv = None
    /\ actual_search = 0
    /\ tpc = "boxes"
    /\ boxed = 0
    /\ reduced = {}
    /\ recovered = {}
    /\ visits = << >>
    /\ ref_min = InitMinDist

\* A first loop that forgets `continue`: every patch becomes a target.
AppendTargetAlways(ts, bd, i) ==
    Append(ts, [box_dist |-> IF bd = None THEN 0 ELSE bd[1], index |-> i])

\* `if box_dist is None: continue / else: targets.append((box_dist, i, ...))`
AppendTarget(ts, bd, i) ==
    IF bd = None THEN ts ELSE Append(ts, [box_dist |-> bd[1], index |-> i])

\* First loop, one patch.  ref_min (a history variable: the result of a scan
\* that examines every patch) takes, for a patch the box test drops, the
\* nearest valid candidate its pencil would yield.
BoxStep ==
    /\ tpc = "boxes" /\ boxed < Len(implicit_patches)
    /\ LET p == implicit_patches[boxed + 1]
           bd == ray_box(ray_origin, ray_dir, p.bounds_min, p.bounds_max)
       IN  /\ targets' = AppendTarget(targets, bd, boxed)
           /\ IF bd = None
              THEN \E r \in RefChoices(ray_origin, ray_dir, p) : ref_min' = Min2(ref_min, r)
              ELSE ref_min' = ref_min
    /\ boxed' = boxed + 1
    /\ UNCHANGED <<ray_origin, ray_dir, implicit_patches, scanned, min_dist, hit_index,
                   hit_uv, actual_search, tpc, reduced, recovered, visits>>

SortStep ==
    /\ tpc = "boxes" /\ boxed = Len(implicit_patches)
    /\ targets' = SortTargets(targets)
    /\ tpc' = "scan"
    /\ UNCHANGED <<ray_origin, ray_dir, implicit_patches, scanned, min_dist, hit_index,
                   hit_uv, actual_search, boxed, reduced, recovered, visits, ref_min>>

\* A pruning test that also drops a patch whose box starts at the best hit.
PrunedOrEqual(box_dist, best) == box_dist >= best

\* `if box_dist > min_dist: continue`
Pruned(box_dist, best) == box_dist > best

\* Second loop, a patch that is skipped.
Prune ==
    /\ tpc = "scan" /\ scanned < Len(targets)
    /\ LET t == targets[scanned + 1]
           p == implicit_patches[t.index + 1]
       IN  /\ Pruned(t.box_dist, min_dist)
           /\ visits' = Append(visits, [index |-> t.index, box_dist |-> t.box_dist,
                                        examined |-> FALSE, best |-> min_dist])
           /\ \E r \in RefChoices(ray_origin, ray_dir, p) : ref_min' = Min2(ref_min, r)
    /\ scanned' = scanned + 1
    /\ UNCHANGED <<ray_origin, ray_dir, implicit_patches, targets, min_dist, hit_index,
                   hit_uv, actual_search, tpc, boxed, reduced, recovered>>

\* The eigenvalue loop of one examined patch, from the state of the scan.
ScanLoop(eigs, p, index) ==
    EigLoop(eigs, [min_dist |-> min_dist, hit_index |-> hit_index, hit_uv |-> hit_uv,
                   called |-> FALSE, raised |-> FALSE],
            ray_origin, ray_dir, p, index)

\* Second loop, the patch is examined: the pencil is built and reduced, and
\* every eigenvalue goes through the filters.
Examine ==
    /\ tpc = "scan" /\ scanned < Len(targets)
    /\ LET t == targets[scanned + 1]
           p == implicit_patches[t.index + 1]
       IN  /\ ~Pruned(t.box_dist, min_dist)
           /\ \E eigs \in EigLists :
                LET st == ScanLoop(eigs, p, t.index)
                IN  /\ ~st.raised
                    /\ min_dist' = st.min_dist
                    /\ hit_index' = st.hit_index
                    /\ hit_uv' = st.hit_uv
                    /\ recovered' = IF st.called THEN recovered \cup {t.index} ELSE recovered
                    /\ ref_min' = NearestOf(eigs, ref_min, ray_origin, ray_dir, p)
                    /\ visits' = Append(visits, [index |-> t.index, box_dist |-> t.box_dist,
                                                 examined |-> TRUE, best |-> st.min_dist])
           /\ reduced' = reduced \cup {t.index}
    /\ actual_search' = actual_search + 1
    /\ scanned' = scanned + 1
    /\ UNCHANGED <<ray_origin, ray_dir, implicit_patches, targets, tpc, boxed>>

\* Second loop, the patch is examined and reduce_pencil_easy raises (its
\* assert, or the minimum of no column): the exception leaves raytrace.
ExamineRaises ==
    /\ tpc = "scan" /\ scanned < Len(targets)
    /\ LET t == targets[scanned + 1]
       IN  /\ ~Pruned(t.box_dist, min_dist)
           /\ visits' = Append(visits, [index |-> t.index, box_dist |-> t.box_dist,
                                        examined |-> TRUE, best |-> min_dist])
           /\ reduced' = reduced \cup {t.index}
    /\ actual_search' = actual_search + 1
    /\ tpc' = "raised"
    /\ UNCHANGED <<ray_origin, ray_dir, implicit_patches, targets, scanned, min_dist,
                   hit_index, hit_uv, boxed, recovered, ref_min>>

\* Second loop, the patch is examined and preimages raises on the first
\* eigenvalue that reaches it (the null vector does not fit v = (5, 2)): the
\* exception leaves raytrace.
RecoverRaises ==
    /\ tpc = "scan" /\ scanned < Len(targets)
    /\ LET t == targets[scanned + 1]
           p == implicit_patches[t.index + 1]
       IN  /\ ~Pruned(t.box_dist, min_dist)
           /\ ~Fits(p)
           /\ \E eigs \in EigLists :
                LET st == ScanLoop(eigs, p, t.index)
                IN  /\ st.raised
                    /\ min_dist' = st.min_dist
                    /\ hit_index' = st.hit_index
                    /\ hit_uv' = st.hit_uv
                    /\ visits' = Append(visits, [index |-> t.index, box_dist |-> t.box_dist,
                                                 examined |-> TRUE, best |-> st.min_dist])
           /\ reduced' = reduced \cup {t.index}
           /\ recovered' = recovered \cup {t.index}
    /\ actual_search' = actual_search + 1
    /\ tpc' = "raised"
    /\ UNCHANGED <<ray_origin, ray_dir, implicit_patches, targets, scanned, boxed, ref_min>>

\* return min_dist, hit_index, hit_uv, len(targets), actual_search
Return ==
    /\ tpc = "scan" /\ scanned = Len(targets)
    /\ tpc' = "done"
    /\ UNCHANGED <<ray_origin, ray_dir, implicit_patches, targets, scanned, min_dist,
                   hit_index, hit_uv, actual_search, boxed, reduced, recovered, visits,
                   ref_min>>

TraceNext ==
    \/ BoxStep /\ UNCHANGED <<redVars, parVars, shapeVars>>
    \/ SortStep /\ UNCHANGED <<redVars, parVars, shapeVars>>
    \/ Prune /\ UNCHANGED <<redVars, parVars, shapeVars>>
    \/ Examine /\ UNCHANGED <<redVars, parVars, shapeVars>>
    \/ ExamineRaises /\ UNCHANGED <<redVars, parVars, shapeVars>>
    \/ RecoverRaises /\ UNCHANGED <<redVars, parVars, shapeVars>>
    \/ Return /\ UNCHANGED <<redVars, parVars, shapeVars>>

TraceStart == TraceInit /\ ReduceIdle /\ ParIdle /\ ShapeIdle

SpecTrace == TraceStart /\ [][TraceNext]_vars

\* ------------------------------------------------------------------------
\* build_M's generator and parameterize_ray.  An M-Rep is the four blocks
\* <<M0, Mx, My, Mz>> of the null space; matrices here are integer, as
\* sequences of rows.
\* ------------------------------------------------------------------------
MaxT == 2

MatAdd(P, Q) == [i \in DOMAIN P |-> [j \in DOMAIN P[i] |-> P[i][j] + Q[i][j]]]
MatSub(P, Q) == [i \in DOMAIN P |-> [j \in DOMAIN P[i] |-> P[i][j] - Q[i][j]]]
MatScale(P, x) == [i \in DOMAIN P |-> [j \in DOMAIN P[i] |-> P[i][j] * x]]

\* lambda x,y,z: null[:i,:] + null[i:2*i,:] * x + null[2*i:3*i,:] * y
\*                          + null[3*i:4*i,:] * z
MrepAt(M, x, y, z) ==
    MatAdd(MatAdd(MatAdd(M[1], MatScale(M[2], x)), MatScale(M[3], y)), MatScale(M[4], z))

\* A = M(*o); B = M(o[0] + d[0], o[1] + d[1], o[2] + d[2]) - A; return A, B
parameterize_ray(M, o, d) ==
    LET MA == MrepAt(M, o[1], o[2], o[3])
        MB == MatSub(MrepAt(M, o[1] + d[1], o[2] + d[2], o[3] + d[3]), MA)
    IN  <<MA, MB>>

Blocks == {<<<<0>>, <<1>>>>, <<<<1>>, <<-1>>>>, <<<<2>>, <<0>>>>}
Origins == {<<0, 0, 0>>, <<1, 0, 2>>, <<-1, 2, 1>>}
Directions == {<<0, 0, 1>>, <<1, -1, 0>>, <<1, 1, 1>>, <<-1, 0, 2>>}

ParInit ==
    /\ par_M \in Blocks \X Blocks \X Blocks \X Blocks
    /\ par_o \in Origins
    /\ par_d \in Directions
    /\ par_A = << >>
    /\ par_B = << >>
    /\ par_t = 0
    /\ par_Mt = << >>
    /\ ppc = "start"

ParameterizeRay ==
    /\ ppc = "start"
    /\ par_A' = parameterize_ray(par_M, par_o, par_d)[1]
    /\ par_B' = parameterize_ray(par_M, par_o, par_d)[2]
    /\ ppc' = "pencil"
    /\ UNCHANGED <<par_M, par_o, par_d, par_t, par_Mt>>

\* The M-Rep at the ray's point o + t*d.
EvaluateOnRay ==
    /\ ppc = "pencil"
    /\ \E t \in (-MaxT)..MaxT :
         /\ par_t' = t
         /\ par_Mt' = MrepAt(par_M, par_o[1] + t * par_d[1], par_o[2] + t * par_d[2],
                             par_o[3] + t * par_d[3])
    /\ ppc' = "evaluated"
    /\ UNCHANGED <<par_M, par_o, par_d, par_A, par_B>>

ParNext ==
    \/ ParameterizeRay /\ UNCHANGED <<traceVars, redVars, shapeVars>>
    \/ EvaluateOnRay /\ UNCHANGED <<traceVars, redVars, shapeVars>>

ParStart == ParInit /\ TraceIdle /\ ReduceIdle /\ ShapeIdle

SpecRay == ParStart /\ [][ParNext]_vars

\* ------------------------------------------------------------------------
\* S_v, build_M and preimages: shapes and the extension degree.
\* ------------------------------------------------------------------------
MaxRankLoss == 3

\* v = (2 * min(degree1, degree2) - 1, max(degree1, degree2) - 1)
DefaultV(d1, d2) == <<2 * Min2(d1, d2) - 1, Max2(d1, d2) - 1>>

\* stride = (v[0] + 1) * (v[1] + 1)
Stride(v) == (v[1] + 1) * (v[2] + 1)

\* An S_v with one column block for each coordinate and none for the constant.
SvShapeNoConst(d1, d2, v) == <<(d1 + v[1] + 1) * (d2 + v[2] + 1), 3 * Stride(v)>>

\* out = np.zeros(((degree1 + v[0] + 1) * (degree2 + v[1] + 1), 4 * stride))
SvShape(d1, d2, v) == <<(d1 + v[1] + 1) * (d2 + v[2] + 1), 4 * Stride(v)>>

\* i = int(null.shape[0] / 4): the rows of each of the four blocks.
BlockRows(nshape) == nshape[1] \div 4

ShapeInit ==
    /\ degree1 \in 1..MaxDeg
    /\ degree2 \in 1..MaxDeg
    /\ sv_v = << >>
    /\ s_shape = << >>
    /\ null_shape = << >>
    /\ m_rows = 0
    /\ pre_v = << >>
    /\ n_len = 0
    /\ spc = "start"

\* s = S_v(b), with v = None
BuildSv ==
    /\ spc = "start"
    /\ sv_v' = DefaultV(degree1, degree2)
    /\ s_shape' = SvShape(degree1, degree2, DefaultV(degree1, degree2))
    /\ spc' = "S_v"
    /\ UNCHANGED <<degree1, degree2, null_shape, m_rows, pre_v, n_len>>

\* null = null_space(s): one row for each column of s, one column for each
\* vector of the basis, cols - rank(s) of them.  The rank of s is at most
\* min(rows, cols); a patch with dependent control points loses some of it.
NullSpace ==
    /\ spc = "S_v"
    /\ \E loss \in 0..MaxRankLoss :
          LET rank == Max2(0, Min2(s_shape[1], s_shape[2]) - loss)
          IN  null_shape' = <<s_shape[2], s_shape[2] - rank>>
    /\ spc' = "null"
    /\ UNCHANGED <<degree1, degree2, sv_v, s_shape, m_rows, pre_v, n_len>>

\* build_M: the generator of the four blocks of i rows.
BuildM ==
    /\ spc = "null"
    /\ m_rows' = BlockRows(null_shape)
    /\ spc' = "built"
    /\ UNCHANGED <<degree1, degree2, sv_v, s_shape, null_shape, pre_v, n_len>>

\* preimages(M, P): n = u[:, -1] has one entry for each row of M(*P); both
\* least-squares systems are solved and the call returns (uv or False).
Preimages ==
    /\ spc = "built"
    /\ PreimagesCompletes(m_rows, PreimagesV)
    /\ n_len' = m_rows
    /\ pre_v' = PreimagesV
    /\ spc' = "recovered"
    /\ UNCHANGED <<degree1, degree2, sv_v, s_shape, null_shape, m_rows>>

\* preimages(M, P) on a null vector whose slices do not fit v = (5, 2): the
\* sums of lines 286-293 or the lstsq calls raise ValueError.
PreimagesRaises ==
    /\ spc = "built"
    /\ ~PreimagesCompletes(m_rows, PreimagesV)
    /\ n_len' = m_rows
    /\ pre_v' = PreimagesV
    /\ spc' = "raised"
    /\ UNCHANGED <<degree1, degree2, sv_v, s_shape, null_shape, m_rows>>

ShapeNext ==
    \/ BuildSv /\ UNCHANGED <<traceVars, redVars, parVars>>
    \/ NullSpace /\ UNCHANGED <<traceVars, redVars, parVars>>
    \/ BuildM /\ UNCHANGED <<traceVars, redVars, parVars>>
    \/ Preimages /\ UNCHANGED <<traceVars, redVars, parVars>>
    \/ PreimagesRaises /\ UNCHANGED <<traceVars, redVars, parVars>>

ShapeStart == ShapeInit /\ TraceIdle /\ ReduceIdle /\ ParIdle

SpecShape == ShapeStart /\ [][ShapeNext]_vars

\* ========================================================================
\* Properties
\* ========================================================================
BoxDistOf(i) ==
    ray_box(ray_origin, ray_dir, implicit_patches[i + 1].bounds_min,
            implicit_patches[i + 1].bounds_max)

PatchIndices == 0..(Len(implicit_patches) - 1)

\* C1: raytrace returns the nearest valid candidate of all patches: its
\* distance is the minimum over every patch of the valid candidates'
\* distances (what a scan that examines every patch finds), and it returns
\* the no-hit values exactly when there is no valid candidate.
C1_NearestValidHit ==
    tpc = "done" =>
        /\ min_dist = ref_min
        /\ ref_min = InitMinDist => (hit_index = None /\ hit_uv = None)
        /\ ref_min < InitMinDist => hit_index # None

\* Two patches of the scene have boxes with a common point.
BoxesMeet(p, q) ==
    \A a \in Axes : p.bounds_min[a] <= q.bounds_max[a] /\ q.bounds_min[a] <= p.bounds_max[a]

Overlapping ==
    \E i \in PatchIndices, j \in PatchIndices :
        i # j /\ BoxesMeet(implicit_patches[i + 1], implicit_patches[j + 1])

\* C2, as stated: in a scene with several overlapping patches the returned
\* distance is at most the box-entry distance of every patch whose box the
\* ray meets, and below that of every pruned patch.
C2_BelowEveryBox ==
    (tpc = "done" /\ Overlapping) =>
        /\ \A k \in 1..Len(targets) : min_dist <= targets[k].box_dist
        /\ \A k \in 1..Len(visits) :
             ~visits[k].examined => min_dist < visits[k].box_dist

\* C2, amended: min_dist is strictly below the box-entry distance of every
\* patch skipped by pruning, during the scan and in the result.
C2_BelowPrunedBoxes ==
    \A k \in 1..Len(visits) : ~visits[k].examined => min_dist < visits[k].box_dist

C2_Witness ==
    /\ tpc = "done"
    /\ Overlapping
    /\ hit_index # None
    /\ \E k \in 1..Len(visits) : ~visits[k].examined
    /\ \E k \in 1..Len(targets) : min_dist > targets[k].box_dist

\* C7: a patch for which ray_box returns None is never a target, never has
\* its pencil built or reduced and never reaches preimages; when ray_box
\* returns None for every patch the result is the no-hit one and no pencil
\* was reduced.
C7_BoxRejectionShortCircuits ==
    /\ \A i \in PatchIndices :
         (i < boxed /\ BoxDistOf(i) = None) =>
            /\ i \notin reduced
            /\ i \notin recovered
            /\ \A k \in 1..Len(targets) : targets[k].index # i
            /\ \A k \in 1..Len(visits) : visits[k].index # i
    /\ (tpc = "done" /\ \A i \in PatchIndices : BoxDistOf(i) = None) =>
            /\ hit_index = None /\ hit_uv = None /\ min_dist = InitMinDist
            /\ actual_search = 0 /\ reduced = {} /\ Len(targets) = 0

C7_Witness ==
    /\ tpc = "done"
    /\ \E i \in PatchIndices : BoxDistOf(i) = None
    /\ \E i \in PatchIndices : i \in recovered /\ hit_index = Some(i)

\* C8: the scan follows the sorted list of targets, in ascending box-entry
\* distance; min_dist never increases along it; after the first pruned patch
\* every later one is pruned; the examined patches are a prefix of the list
\* and actual_search counts them.
C8_PruningCutsSortedOrder ==
    /\ tpc \in {"scan", "done", "raised"} =>
         \A k \in 1..(Len(targets) - 1) : TargetLess(targets[k], targets[k + 1])
    /\ Len(visits) <= Len(targets)
    /\ \A k \in 1..Len(visits) :
         /\ visits[k].index = targets[k].index
         /\ visits[k].box_dist = targets[k].box_dist
         /\ visits[k].best <= InitMinDist
    /\ \A k \in 1..Len(visits), l \in 1..Len(visits) :
         k < l => /\ visits[k].box_dist <= visits[l].box_dist
                  /\ visits[l].best <= visits[k].best
                  /\ ~visits[k].examined => ~visits[l].examined
    /\ Len(visits) > 0 => min_dist = visits[Len(visits)].best
    /\ actual_search = Cardinality({k \in 1..Len(visits) : visits[k].examined})
    /\ reduced = {visits[k].index : k \in {l \in 1..Len(visits) : visits[l].examined}}

C8_Witness ==
    /\ tpc = "done"
    /\ Len(visits) >= 3
    /\ visits[1].examined /\ visits[1].index # 0
    /\ ~visits[2].examined /\ ~visits[3].examined

\* C3: the reducer never raises: no run ends in the failed assert(r == i)
\* or in the minimum of an empty set of near-zero columns, and a degenerate
\* pencil gives pencil_eigenvalues the empty list.
C3_DegenerateNeverRaises ==
    /\ rpc # "raised"
    /\ outcome \notin {"AssertionError", "ValueError"}
    /\ (rpc = "returned" /\ outcome = "degenerate") => eigs_out = Some(0)

\* C6: A and B have equal shapes throughout the reduction, also after the
\* slices that precede `return False`, and a returned pencil is square, has
\* at least one row and column, and its B has full numerical column rank.
C6_ReducerPostcondition ==
    /\ A.r = B.r /\ A.c = B.c
    /\ outcome = "pencil" =>
         /\ A.r >= 1 /\ A.c >= 1
         /\ B.r = B.c
         /\ \A s \in SVDs(B) : NumRank(B, s) = B.c

C6_Witness ==
    /\ outcome = "pencil"
    /\ passes >= 1
    /\ depth >= 1

\* C9: reduce_pencil_easy ends with a pencil or with DEGENERATE.
C9_EndsInPencilOrDegenerate ==
    rpc \notin {"loop", "exit"} => outcome \in {"pencil", "degenerate"}

\* C4: A = M(o), B = M(o + d) - A and M(o + t*d) = A - t*B.
C4_MinusIdentity ==
    ppc = "evaluated" =>
        /\ par_A = MrepAt(par_M, par_o[1], par_o[2], par_o[3])
        /\ par_B = MatSub(MrepAt(par_M, par_o[1] + par_d[1], par_o[2] + par_d[2],
                                 par_o[3] + par_d[3]), par_A)
        /\ par_Mt = MatSub(par_A, MatScale(par_B, par_t))

\* C5, as stated: each of the four blocks M0, Mx, My, Mz has
\* K = (p + v0 + 1) * (q + v1 + 1) rows.
C5_BlocksHaveKRows ==
    spc \in {"built", "recovered", "raised"} =>
        m_rows = (degree1 + sv_v[1] + 1) * (degree2 + sv_v[2] + 1)

\* C5, amended: with the default v0 = 2*min(p,q) - 1, v1 = max(p,q) - 1 the
\* constraint matrix S has K = (p + v0 + 1) * (q + v1 + 1) rows and
\* 4 * (v0 + 1) * (v1 + 1) columns; the null-space basis has one row for each
\* column of S, and each of its four equal blocks has (v0 + 1) * (v1 + 1)
\* rows and R columns.
C5_BlocksHaveStrideRows ==
    spc \in {"built", "recovered", "raised"} =>
        /\ sv_v = <<2 * Min2(degree1, degree2) - 1, Max2(degree1, degree2) - 1>>
        /\ s_shape[1] = (degree1 + sv_v[1] + 1) * (degree2 + sv_v[2] + 1)
        /\ null_shape[1] = s_shape[2]
        /\ 4 * m_rows = null_shape[1]
        /\ m_rows = (sv_v[1] + 1) * (sv_v[2] + 1)

C5_Witness ==
    /\ spc = "built"
    /\ degree1 = 3 /\ degree2 = 3
    /\ m_rows = 18
    /\ s_shape = <<54, 72>>
    /\ null_shape = <<72, 18>>

\* C10: preimages uses the extension degree S_v built the M-Rep with, and
\* the null vector has (v0 + 1) * (v1 + 1) entries for that v, whether the
\* call returns or raises.
C10_SameExtensionDegree ==
    spc \in {"recovered", "raised"} =>
        /\ pre_v = sv_v
        /\ n_len = (pre_v[1] + 1) * (pre_v[2] + 1)

====
